---- MODULE Spec2Model ----
(***************************************************************************)
(* DocZen job lifecycle: the backend JobService (Mongo "jobs" collection,  *)
(* Redis list "job_queue", in-process background completion task) and the  *)
(* Celery worker tasks behind the worker's /process endpoint.              *)
(*                                                                         *)
(* cancel_job and the background process() interleave at their await       *)
(* points: each of their actions is the code between two awaits.           *)
(***************************************************************************)
EXTENDS Integers, Sequences, FiniteSets, TLC

\* ---- bounds of the model ----
MaxJobs == 2
MaxCalls == 2
MaxTasks == 2

JobIds == 1..MaxJobs
CallIds == 1..MaxCalls
TaskIds == 1..MaxTasks
Users == {"u1", "u2"}

\* ---- values ----
None == "None"
NoProgress == -1

\* schemas/file.py JobStatus
JobStatus == {"pending", "processing", "completed", "failed", "cancelled"}

\* the fields of JobUpdate (schemas/file.py)
JobUpdate == {"status", "progress", "result", "error_message"}

IsNone(k, v) == IF k = "progress" THEN v = NoProgress ELSE v = None

VARIABLES
    jobs,        \* db.jobs: job_id -> stored document
    job_queue,   \* the Redis list "job_queue", head first
    redis_keys,  \* the plain Redis keys that exist ("job:<id>" is modelled by <id>)
    proc,        \* per job: position of create_job and of its background process()
    cancels,     \* per cancel_job call: position, arguments, the status it read, return value
    tasks,       \* worker: the Celery tasks submitted by /process, with what each reported
    popped,      \* the job ids rpop has handed off, in order
    response,    \* what the last get_job / get_user_jobs call returned
    now,         \* the clock datetime.utcnow() reads, in hours
    users,       \* db.users: the stored user documents, _id = position
    regs,        \* per POST /register call: position, arguments, answer
    reply,       \* what the last UserService call returned
    files,       \* db.files: the stored file documents, _id = position
    shared_links,\* db.shared_links: the stored share links, link_id = position
    downloads    \* per get_shared_file call: position, arguments, what it read, return value

vars == <<jobs, job_queue, redis_keys, proc, cancels, tasks, popped, response,
          now, users, regs, reply, files, shared_links, downloads>>
backend == <<jobs, job_queue, redis_keys, proc, cancels, popped, response>>
accounts == <<users, regs, reply>>
storage == <<files, shared_links, downloads>>
services == <<now, accounts, storage>>
jobsystem == <<backend, tasks>>

\* ---- Redis client (core/redis.py) ----
\* lpush without a connection: returns 0 and pushes nothing
lpush_unconnected(list, value) == list

lpush(list, value) == <<value>> \o list

\* rpop: the element at the tail, and the list without it
rpop(list) == list[Len(list)]

rpop_rest(list) == SubSeq(list, 1, Len(list) - 1)

delete(keys, key) == keys \ {key}

\* ---- JobService.update_job: $set of the non-None fields of the update ----
update_data(job_update) ==
    {k \in DOMAIN job_update : ~IsNone(k, job_update[k])}

update_job(js, job_id, job_update) ==
    IF job_id \in DOMAIN js
    THEN LET old == js[job_id]
             upd == update_data(job_update)
             new == [f \in DOMAIN old |->
                        IF f \in upd THEN job_update[f]
                        ELSE IF f = "completed_at" /\ "status" \in upd
                                /\ job_update["status"] = "completed" THEN "set"
                        ELSE old[f]]
         IN [js EXCEPT ![job_id] = new]
    ELSE js

\* get_job that looks the job up by job_id alone
get_job_any_user(js, job_id, user_id) ==
    IF job_id \in DOMAIN js THEN js[job_id] ELSE [status |-> None]

\* ---- JobService.get_job: find_one({"job_id": job_id, "user_id": user_id}) ----
get_job(js, job_id, user_id) ==
    IF job_id \in DOMAIN js /\ js[job_id].user_id = user_id
    THEN js[job_id] ELSE [status |-> None]

\* cancel_job refusing only failed and cancelled jobs
Cancellable_completed == {"pending", "processing", "completed"}

\* the statuses cancel_job accepts
Cancellable == {"pending", "processing"}

\* the update cancel_job applies
CancelUpdate == [status |-> "cancelled"]

\* a completion that forgets the result
CompletedUpdate_no_result == [status |-> "completed", progress |-> 100]

\* the update the background process() applies
CompletedUpdate ==
    [status |-> "completed", progress |-> 100, result |-> "Job completed successfully"]

\* the key _remove_from_queue deletes for a job id: "job:<id>", never the list
RemoveKey(job_id) == job_id

NoTask == [pc |-> "none", task |-> None, task_type |-> <<>>, job_id |-> 0, reports |-> <<>>,
           runs |-> 0, raised |-> None]

IdleCall == [pc |-> "idle", job_id |-> 0, user_id |-> None, status |-> None, ret |-> None]

NoResponse == [op |-> None]

Init ==
    /\ jobs = <<>>
    /\ job_queue = <<>>
    /\ redis_keys = {}
    /\ proc = [j \in JobIds |-> "none"]
    /\ cancels = [c \in CallIds |-> IdleCall]
    /\ tasks = [t \in TaskIds |-> NoTask]
    /\ popped = <<>>
    /\ response = NoResponse
    /\ now = 0
    /\ users = <<>>
    /\ regs = [c \in CallIds |->
                [pc |-> "idle", email |-> None, password |-> None, ret |-> None]]
    /\ reply = [op |-> None, email |-> None, ret |-> None, user |-> 0]
    /\ files = <<>>
    /\ shared_links = <<>>
    /\ downloads = [c \in CallIds |-> [pc |-> "idle", link_id |-> 0, ret |-> None]]

\* an id that is not fresh: always the first one
FreshId_reused == CHOOSE j \in JobIds : \A k \in JobIds : j <= k

\* uuid4(): an id no stored job has
FreshId == CHOOSE j \in JobIds : j \notin DOMAIN jobs /\ \A k \in JobIds : k < j => k \in DOMAIN jobs

\* datetime.utcnow() of create_job: a later call reads a later time
utcnow == Cardinality(DOMAIN jobs) + 1

\* create_job: the document is job_data.dict() plus the initial fields; then
\* insert_one, _queue_job = lpush("job_queue", job_id), create_task(process());
\* the caller learns the job_id when it returns. The user_id argument is not used.
create_job(job_data, user_id) ==
    /\ \E j \in JobIds : j \notin DOMAIN jobs
    /\ LET job_id == FreshId
           job == [job_id |-> job_id, job_type |-> job_data.job_type,
                   user_id |-> job_data.user_id, input_files |-> job_data.input_files,
                   priority |-> job_data.priority, status |-> "pending",
                   progress |-> 0, result |-> None, error_message |-> None,
                   created_at |-> utcnow, completed_at |-> None]
       IN /\ jobs' = [k \in DOMAIN jobs \cup {job_id} |-> IF k = job_id THEN job ELSE jobs[k]]
          /\ job_queue' = lpush(job_queue, job_id)
          /\ proc' = [proc EXCEPT ![job_id] = "sleep"]
    /\ UNCHANGED <<redis_keys, cancels, tasks, services, popped, response>>

\* process(): after the sleep, find_one({"job_id": job_id})
ProcessFind(j) ==
    /\ proc[j] = "sleep"
    /\ proc' = [proc EXCEPT ![j] = IF j \in DOMAIN jobs THEN "found" ELSE "done"]
    /\ UNCHANGED <<jobs, job_queue, redis_keys, cancels, tasks, services, popped, response>>

\* process(): update_job(job_id, completed / 100 / result)
ProcessUpdate(j) ==
    /\ proc[j] = "found"
    /\ jobs' = update_job(jobs, j, CompletedUpdate)
    /\ proc' = [proc EXCEPT ![j] = "done"]
    /\ UNCHANGED <<job_queue, redis_keys, cancels, tasks, services, popped, response>>

\* the calls are numbered in the order they arrive
NextCall == CHOOSE c \in CallIds :
    cancels[c].pc = "idle" /\ \A k \in CallIds : k < c => cancels[k].pc # "idle"

\* cancel_job: get_job and the two early returns
CancelGet(c, job_id, user_id) ==
    /\ cancels[c].pc = "idle"
    /\ c = NextCall
    /\ LET job == get_job(jobs, job_id, user_id)
       IN cancels' = [cancels EXCEPT ![c] =
            IF job.status = None \/ job.status \notin Cancellable
            THEN [pc |-> "done", job_id |-> job_id, user_id |-> user_id,
                  status |-> job.status, ret |-> "False"]
            ELSE [pc |-> "got", job_id |-> job_id, user_id |-> user_id,
                  status |-> job.status, ret |-> None]]
    /\ UNCHANGED <<jobs, job_queue, redis_keys, proc, tasks, services, popped, response>>

\* cancel_job: update_job(job_id, JobUpdate(status="cancelled")); returns True
\* here unless the job it read was pending
CancelSet(c) ==
    /\ cancels[c].pc = "got"
    /\ jobs' = update_job(jobs, cancels[c].job_id, CancelUpdate)
    /\ cancels' = [cancels EXCEPT ![c] =
            IF cancels[c].status = "pending"
            THEN [@ EXCEPT !.pc = "remove"]
            ELSE [@ EXCEPT !.pc = "done", !.ret = "True"]]
    /\ UNCHANGED <<job_queue, redis_keys, proc, tasks, services, popped, response>>

\* cancel_job: _remove_from_queue(job_id), then return True
CancelRemove(c) ==
    /\ cancels[c].pc = "remove"
    /\ redis_keys' = delete(redis_keys, RemoveKey(cancels[c].job_id))
    /\ cancels' = [cancels EXCEPT ![c] = [@ EXCEPT !.pc = "done", !.ret = "True"]]
    /\ UNCHANGED <<jobs, job_queue, proc, tasks, services, popped, response>>

\* ---- worker (workers/main.py) ----
\* a task type is its name split at "_": "merge_pdf" is <<"merge", "pdf">>
startswith(task_type, prefix) == Len(task_type) >= 2 /\ task_type[1] = prefix

\* schemas/file.py JobType
JobType == {
    <<"merge", "pdf">>, <<"split", "pdf">>, <<"compress", "pdf">>,
    <<"convert", "pdf", "to", "word">>, <<"convert", "word", "to", "pdf">>,
    <<"convert", "image", "to", "pdf">>, <<"convert", "pdf", "to", "image">>,
    <<"extract", "pages">>, <<"remove", "pages">>, <<"rotate", "pages">>,
    <<"add", "watermark">>, <<"protect", "pdf">>, <<"remove", "protection">>,
    <<"ocr", "processing">>}

\* the branches of process_pdf_task
PdfTaskTypes == {
    <<"merge", "pdf">>, <<"split", "pdf">>, <<"compress", "pdf">>,
    <<"extract", "pages">>, <<"remove", "pages">>, <<"rotate", "pages">>,
    <<"add", "watermark">>, <<"protect", "pdf">>, <<"remove", "protection">>}

\* the branches of convert_file_task
ConvertTaskTypes == {
    <<"pdf", "to", "word">>, <<"word", "to", "pdf">>,
    <<"image", "to", "pdf">>, <<"pdf", "to", "image">>}

\* the lists process_file tests task_type against
PdfRouteList == PdfTaskTypes
ConvertRouteList == ConvertTaskTypes

\* what a /process request may carry as task_type: the catalog, the names the
\* tasks know, a name nothing knows, and no task_type at all (<<>>)
RequestTypes == JobType \cup ConvertTaskTypes \cup {<<"resize", "image">>, <<>>}

\* the /process requests tried, as <<task_type, job_id>> (0 is a missing
\* job_id): every type for one job, and two types for another job and for none
Requests ==
    {<<task_type, 1>> : task_type \in RequestTypes}
        \cup {<<task_type, job_id>> :
                task_type \in {<<"merge", "pdf">>, <<"ocr", "processing">>}, job_id \in {0, 2}}

RequestJobIds == {request[2] : request \in Requests} \ {0}

\* process_file: the task the request is routed to, or "400"
Route(task_type, job_id) ==
    IF task_type = <<>> \/ job_id = 0 THEN "400"
    ELSE IF startswith(task_type, "pdf") \/ task_type \in PdfRouteList THEN "process_pdf_task"
    ELSE IF startswith(task_type, "convert") \/ task_type \in ConvertRouteList THEN "convert_file_task"
    ELSE IF task_type = <<"ocr", "processing">> THEN "ocr_task"
    ELSE "400"

\* whether a task has a branch for the type
Handles(task, task_type) ==
    CASE task = "process_pdf_task" -> task_type \in PdfTaskTypes
      [] task = "convert_file_task" -> task_type \in ConvertTaskTypes
      [] OTHER -> TRUE

\* the message of the ValueError of the task's else branch
UnknownMessage(task) ==
    IF task = "process_pdf_task" THEN "Unknown task type" ELSE "Unknown conversion type"

\* a task that reports some progress when it starts
processing_report_progress ==
    [status |-> "processing", progress |-> 10, result |-> None, error_message |-> None]

\* the three update_job_status reports of a task
processing_report ==
    [status |-> "processing", progress |-> 0, result |-> None, error_message |-> None]

\* a task that reports processing again where it should report completed
completed_report_processing(result) ==
    [status |-> "processing", progress |-> 100, result |-> result, error_message |-> None]

completed_report(result) ==
    [status |-> "completed", progress |-> 100, result |-> result, error_message |-> None]

\* a failed report with a fixed text instead of str(e)
failed_report_generic(e) ==
    [status |-> "failed", progress |-> 0, result |-> None, error_message |-> "Task failed"]

failed_report(e) ==
    [status |-> "failed", progress |-> 0, result |-> None, error_message |-> e]

FreeTask == CHOOSE t \in TaskIds :
    tasks[t].pc = "none" /\ \A k \in TaskIds : k < t => tasks[k].pc # "none"

\* POST /process
process_file(task_type, job_id) ==
    /\ \E t \in TaskIds : tasks[t].pc = "none"
    /\ LET task == Route(task_type, job_id)
       IN tasks' = IF task = "400" THEN tasks
                   ELSE [tasks EXCEPT ![FreeTask] =
                           [pc |-> "queued", task |-> task, task_type |-> task_type,
                            job_id |-> job_id, reports |-> <<>>, runs |-> 0, raised |-> None]]
    /\ UNCHANGED <<backend, services>>

\* a Celery worker starts the task: update_job_status(job_id, "processing", 0)
TaskBegin(t) ==
    /\ tasks[t].pc = "queued"
    /\ tasks' = [tasks EXCEPT ![t] =
            [@ EXCEPT !.pc = "running", !.reports = Append(@, processing_report)]]
    /\ UNCHANGED <<backend, services>>

\* the operation is invoked once and returns or raises (a type without a
\* branch raises ValueError before any operation); the task reports completed,
\* or reports failed with str(e) and re-raises e to Celery
TaskEnd(t, raises) ==
    /\ tasks[t].pc = "running"
    /\ LET known == Handles(tasks[t].task, tasks[t].task_type)
           e == IF ~known THEN UnknownMessage(tasks[t].task)
                ELSE IF raises THEN "OperationError" ELSE None
           report == IF e # None THEN failed_report(e) ELSE completed_report("result")
       IN tasks' = [tasks EXCEPT ![t] =
            [@ EXCEPT !.pc = "done", !.reports = Append(@, report),
                      !.runs = IF known THEN @ + 1 ELSE @, !.raised = e]]
    /\ UNCHANGED <<backend, services>>

WorkerNext ==
    \/ \E request \in Requests : process_file(request[1], request[2])
    \/ \E t \in TaskIds : TaskBegin(t)
    \/ \E t \in TaskIds, raises \in BOOLEAN : TaskEnd(t, raises)

WorkerSpec == Init /\ [][WorkerNext]_vars


\* the job specifications the requests of the cancel scenarios submit
JobData ==
    {[job_type |-> <<"compress", "pdf">>, user_id |-> u,
      input_files |-> <<"a.pdf">>, priority |-> 1] : u \in Users}

Next ==
    \/ \E job_data \in JobData, u \in Users : create_job(job_data, u)
    \/ \E j \in JobIds : ProcessFind(j)
    \/ \E j \in JobIds : ProcessUpdate(j)
    \/ \E c \in CallIds, j \in JobIds, u \in Users : CancelGet(c, j, u)
    \/ \E c \in CallIds : CancelSet(c)
    \/ \E c \in CallIds : CancelRemove(c)

Spec == Init /\ [][Next]_vars

\* the event loop runs every background task that is ready: the sleep of
\* process() ends and its awaits return
ProcessFairness ==
    \A j \in JobIds : WF_vars(ProcessFind(j)) /\ WF_vars(ProcessUpdate(j))

\* the jobs of one user, submitted and cancelled by that user
OwnerNext ==
    \/ \E job_data \in {d \in JobData : d.user_id = "u1"} : create_job(job_data, "u1")
    \/ \E j \in JobIds : ProcessFind(j)
    \/ \E j \in JobIds : ProcessUpdate(j)
    \/ \E c \in CallIds, j \in JobIds : CancelGet(c, j, "u1")
    \/ \E c \in CallIds : CancelSet(c)
    \/ \E c \in CallIds : CancelRemove(c)

FairSpec == Init /\ [][OwnerNext]_vars /\ ProcessFairness

\* ---- process restart (backend/main.py lifespan) ----
\* The backend process stops and starts again: the store and the queue are
\* durable, the asyncio tasks created by create_job and the running requests are
\* gone, and the startup code re-creates none of them.
Restart ==
    /\ \/ \E j \in JobIds : proc[j] \in {"sleep", "found"}
       \/ \E c \in CallIds : cancels[c].pc \in {"got", "remove"}
    /\ proc' = [j \in JobIds |-> IF proc[j] \in {"sleep", "found"} THEN "lost" ELSE proc[j]]
    /\ cancels' = [c \in CallIds |->
            IF cancels[c].pc \in {"got", "remove"}
            THEN [cancels[c] EXCEPT !.pc = "aborted"] ELSE cancels[c]]
    /\ UNCHANGED <<jobs, job_queue, redis_keys, tasks, services, popped, response>>

CrashNext == OwnerNext \/ Restart

CrashSpec == Init /\ [][CrashNext]_vars /\ ProcessFairness

\* ---- POST /jobs (api/v1/files.py) and the queue consumer ----
\* JobCreate: job_type, user_id and input_files are required, job_type is a
\* JobType and input_files a list (of any length)
JobCreate_valid(body) ==
    /\ {"job_type", "user_id", "input_files"} \subseteq DOMAIN body
    /\ body.job_type \in JobType

\* JobCreate(**body): priority defaults to 1
JobCreate(body) ==
    [job_type |-> body.job_type, user_id |-> body.user_id,
     input_files |-> body.input_files,
     priority |-> IF "priority" \in DOMAIN body THEN body.priority ELSE 1]

\* the request bodies tried: two catalog types and one unknown type, an empty
\* and a one-file input list, two priorities; a body of another user, a body
\* without priority and a body without input_files
Bodies ==
    {[job_type |-> t, user_id |-> "u1", input_files |-> f, priority |-> p] :
        t \in {<<"compress", "pdf">>, <<"ocr", "processing">>, <<"resize", "image">>},
        f \in {<<>>, <<"a.pdf">>}, p \in {1, 2}}
    \cup {[job_type |-> <<"compress", "pdf">>, user_id |-> "u2",
           input_files |-> <<"a.pdf">>, priority |-> 1],
          [job_type |-> <<"compress", "pdf">>, user_id |-> "u1", input_files |-> <<"b.pdf">>],
          [job_type |-> <<"compress", "pdf">>, user_id |-> "u1"]}

\* POST /jobs: FastAPI validates the body (422 otherwise), then create_job
post_jobs(body, current_user) ==
    IF JobCreate_valid(body)
    THEN create_job(JobCreate(body), current_user)
    ELSE UNCHANGED vars

\* a consumer of the queue: rpop("job_queue")
Pop ==
    /\ job_queue # <<>>
    /\ popped' = Append(popped, rpop(job_queue))
    /\ job_queue' = rpop_rest(job_queue)
    /\ UNCHANGED <<jobs, redis_keys, proc, cancels, tasks, services, response>>

SubmitNext ==
    \/ \E body \in Bodies, u \in Users : post_jobs(body, u)
    \/ \E j \in JobIds : ProcessFind(j)
    \/ \E j \in JobIds : ProcessUpdate(j)
    \/ Pop

SubmitSpec == Init /\ [][SubmitNext]_vars

\* ---- the read operations of JobService ----
\* cursor.sort("created_at", 1): oldest first
RECURSIVE sort_ascending(_, _)
sort_ascending(js, ids) ==
    IF ids = {} THEN <<>>
    ELSE LET first == CHOOSE i \in ids : \A k \in ids : js[i].created_at <= js[k].created_at
         IN <<js[first]>> \o sort_ascending(js, ids \ {first})

\* cursor.sort("created_at", -1): the documents of ids, newest first
RECURSIVE sort(_, _)
sort(js, ids) ==
    IF ids = {} THEN <<>>
    ELSE LET first == CHOOSE i \in ids : \A k \in ids : js[i].created_at >= js[k].created_at
         IN <<js[first]>> \o sort(js, ids \ {first})

\* cursor.skip(skip).limit(limit)
skip_limit(docs, skip, limit) ==
    SubSeq(docs, skip + 1, IF Len(docs) < skip + limit THEN Len(docs) ELSE skip + limit)

\* get_user_jobs: find(query).sort("created_at", -1).skip(skip).limit(limit);
\* the status filter is part of the query only when status is given
get_user_jobs(js, user_id, skip, limit, status) ==
    LET found == {j \in DOMAIN js :
                    /\ js[j].user_id = user_id
                    /\ status # None => js[j].status = status}
    IN skip_limit(sort(js, found), skip, limit)

\* GET /jobs/{job_id}
GetJob(job_id, user_id) ==
    /\ response' = [op |-> "get_job", job_id |-> job_id, user_id |-> user_id,
                    result |-> get_job(jobs, job_id, user_id)]
    /\ UNCHANGED <<jobs, job_queue, redis_keys, proc, cancels, tasks, services, popped>>

\* GET /jobs
GetUserJobs(user_id, skip, limit, status) ==
    /\ response' = [op |-> "get_user_jobs", user_id |-> user_id, skip |-> skip,
                    limit |-> limit, status |-> status,
                    result |-> get_user_jobs(jobs, user_id, skip, limit, status)]
    /\ UNCHANGED <<jobs, job_queue, redis_keys, proc, cancels, tasks, services, popped>>

\* the default page size of get_user_jobs
DefaultLimit == 50

ReadNext ==
    \/ \E job_data \in JobData, u \in Users : create_job(job_data, u)
    \/ \E j \in JobIds : ProcessFind(j)
    \/ \E j \in JobIds : ProcessUpdate(j)
    \/ \E j \in JobIds, u \in Users : GetJob(j, u)
    \/ \E u \in Users, skip \in {0, 1}, limit \in {1, DefaultLimit},
          status \in {None, "pending", "completed"} : GetUserJobs(u, skip, limit, status)

ReadSpec == Init /\ [][ReadNext]_vars

\* The backend and the worker are separate processes that share no state
\* (update_job_status only prints), so a property that is a conjunction of a
\* backend property and a worker property is checked on the runs of each alone.
ProgressNext ==
    \/ tasks = [t \in TaskIds |-> NoTask] /\ Next
    \/ jobs = <<>> /\ proc = [j \in JobIds |-> "none"]
       /\ cancels = [c \in CallIds |-> IdleCall] /\ WorkerNext

ProgressSpec == Init /\ [][ProgressNext]_vars

\* ---- UserService (services/user_service.py) and the /auth endpoints ----
MaxTime == 2

Emails == {"a@x.com", "b@x.com"}
Passwords == {"Passw0rd1", "Secr3tPw2"}
\* the salt bcrypt draws for a hash (no operation compares two hashes)
Salts == {"s1"}

\* the None of a datetime field, of a token field and of a user
NoTime == -1
NoToken == [type |-> None]
NoUser == [email |-> None]

\* core/security.py: a bcrypt hash keeps its salt next to the digest of salt
\* and password; verify hashes the plain password with the salt of the hash
get_password_hash(password, salt) == [salt |-> salt, digest |-> <<salt, password>>]

\* a verify that accepts every password
verify_password_any(plain_password, hashed_password) ==
    hashed_password.salt \in Salts

verify_password(plain_password, hashed_password) ==
    hashed_password.digest = <<hashed_password.salt, plain_password>>

\* core/security.py generate_reset_token: a signed JWT of the email, the type
\* and the expiry one hour ahead
ResetHours == 1

generate_reset_token(email) == [type |-> "reset", email |-> email, exp |-> now + ResetHours]

\* a token the signature check of jwt.decode rejects
Forged == [type |-> "forged"]

\* core/security.py verify_reset_token: the email of the token; None when it
\* raises (bad signature, wrong type, expired)
verify_reset_token(token) ==
    IF token.type # "reset" THEN None
    ELSE IF token.exp < now THEN None
    ELSE token.email

\* a Python dict display: of two pairs with one key the later one stays
dict(items) ==
    [k \in {items[i][1] : i \in DOMAIN items} |->
        items[CHOOSE i \in DOMAIN items :
                items[i][1] = k /\ \A j \in DOMAIN items : items[j][1] = k => j <= i][2]]

\* collection.update_one(filter, update) on the matched document: "$set"
\* replaces the fields it names
update_one(doc, update) ==
    [f \in DOMAIN doc |->
        IF "$set" \in DOMAIN update /\ f \in DOMAIN update["$set"]
        THEN update["$set"][f] ELSE doc[f]]

\* models/user.py User(**user_dict)
User(email, hashed_password) ==
    [email |-> email, hashed_password |-> hashed_password, last_login |-> NoTime,
     refresh_tokens |-> <<>>, password_reset_token |-> NoToken,
     password_reset_expires |-> NoTime]

\* the _id of the first document a query on email matches, 0 for no match
find_one_email(us, email) ==
    IF \E i \in DOMAIN us : us[i].email = email
    THEN CHOOSE i \in DOMAIN us :
            us[i].email = email /\ \A k \in DOMAIN us : us[k].email = email => i <= k
    ELSE 0

get_user_by_email(us, email) ==
    IF find_one_email(us, email) = 0 THEN NoUser ELSE us[find_one_email(us, email)]

get_user_by_id(us, user_id) ==
    IF user_id \in DOMAIN us THEN us[user_id] ELSE NoUser

\* a users collection without the unique index on email
email_index_missing(us, doc) == TRUE

\* core/database.py create_indexes: users.create_index("email", unique=True);
\* whether insert_one(doc) passes the index
email_index(us, doc) == \A i \in DOMAIN us : us[i].email # doc.email

\* what a UserService call returned: ret is "None", "True", "False" or "User",
\* and user the _id of the User returned
Reply(op, email, ret, user) == [op |-> op, email |-> email, ret |-> ret, user |-> user]

\* the user ids a caller may name: the stored ones and one more
UserIds == 1..MaxCalls

\* the tokens tried: the stored ones, the one an earlier mail may hold, a forged one
TriedTokens ==
    {users[i].password_reset_token : i \in DOMAIN users}
        \cup {[type |-> "reset", email |-> e, exp |-> ResetHours] : e \in Emails}
        \cup {Forged}

\* the register calls are numbered in the order they arrive
NextReg == CHOOSE c \in CallIds :
    regs[c].pc = "idle" /\ \A k \in CallIds : k < c => regs[k].pc # "idle"

\* POST /register: get_user_by_email, 400 when the email is taken
register(c, email, password) ==
    /\ regs[c].pc = "idle"
    /\ c = NextReg
    /\ LET existing_user == get_user_by_email(users, email)
       IN regs' = [regs EXCEPT ![c] =
            IF existing_user # NoUser
            THEN [pc |-> "done", email |-> email, password |-> password,
                  ret |-> "400 Email already registered"]
            ELSE [pc |-> "create_user", email |-> email, password |-> password,
                  ret |-> None]]
    /\ UNCHANGED <<jobsystem, now, users, reply, storage>>

\* create_user: get_user_by_email again, 400 when the email is taken
create_user(c) ==
    /\ regs[c].pc = "create_user"
    /\ LET existing_user == get_user_by_email(users, regs[c].email)
       IN regs' = [regs EXCEPT ![c] =
            IF existing_user # NoUser
            THEN [@ EXCEPT !.pc = "done", !.ret = "400 Email already registered"]
            ELSE [@ EXCEPT !.pc = "insert_one"]]
    /\ UNCHANGED <<jobsystem, now, users, reply, storage>>

\* create_user: insert_one(user.to_dict()); the unique index refuses a second
\* document of the email (DuplicateKeyError, answered 500)
insert_one(c, salt) ==
    /\ regs[c].pc = "insert_one"
    /\ LET user == User(regs[c].email, get_password_hash(regs[c].password, salt))
       IN IF email_index(users, user)
          THEN /\ users' = Append(users, user)
               /\ regs' = [regs EXCEPT ![c] = [@ EXCEPT !.pc = "done", !.ret = "200"]]
          ELSE /\ users' = users
               /\ regs' = [regs EXCEPT ![c] = [@ EXCEPT !.pc = "done", !.ret = "500"]]
    /\ UNCHANGED <<jobsystem, now, reply, storage>>

\* authenticate_user: None for an unknown email or a wrong password, else
\* last_login is set and the user read is returned
authenticate_user(email, password) ==
    /\ LET user_id == find_one_email(users, email)
           user == get_user_by_email(users, email)
       IN IF user = NoUser
          THEN /\ users' = users
               /\ reply' = Reply("authenticate_user", email, "None", 0)
          ELSE IF ~verify_password(password, user.hashed_password)
          THEN /\ users' = users
               /\ reply' = Reply("authenticate_user", email, "None", 0)
          ELSE /\ users' = [users EXCEPT ![user_id] =
                                update_one(@, dict(<< <<"$set", [last_login |-> now]>> >>))]
               /\ reply' = Reply("authenticate_user", email, "User", user_id)
    /\ UNCHANGED <<jobsystem, now, regs, storage>>

\* change_password: False for an unknown user or a wrong current password,
\* else update_one with the update document as the code writes it
change_password(user_id, current_password, new_password, salt) ==
    /\ LET user == get_user_by_id(users, user_id)
           hashed_password == get_password_hash(new_password, salt)
       IN IF user = NoUser
          THEN /\ users' = users
               /\ reply' = Reply("change_password", None, "False", 0)
          ELSE IF ~verify_password(current_password, user.hashed_password)
          THEN /\ users' = users
               /\ reply' = Reply("change_password", None, "False", 0)
          ELSE /\ users' = [users EXCEPT ![user_id] =
                    update_one(@, dict(<<
                        <<"$set", [hashed_password |-> hashed_password]>>,
                        <<"$set", [refresh_tokens |-> <<>>]>> >>))]
               /\ reply' = Reply("change_password", None, "True", 0)
    /\ UNCHANGED <<jobsystem, now, regs, storage>>

\* send_password_reset_email: nothing for an unknown email, else the token and
\* its expiry are stored
send_password_reset_email(email) ==
    /\ LET user_id == find_one_email(users, email)
       IN users' = IF user_id = 0 THEN users
                   ELSE [users EXCEPT ![user_id] =
                           update_one(@, dict(<< <<"$set",
                               [password_reset_token |-> generate_reset_token(email),
                                password_reset_expires |-> now + ResetHours]>> >>))]
    /\ reply' = Reply("send_password_reset_email", None, "None", 0)
    /\ UNCHANGED <<jobsystem, now, regs, storage>>

\* the user a reset_password(token, ...) call passes its checks for, 0 for none
reset_user(us, token) ==
    LET email == verify_reset_token(token)
        user_id == IF email = None THEN 0 ELSE find_one_email(us, email)
    IN IF user_id = 0 THEN 0
       ELSE IF us[user_id].password_reset_token # token THEN 0
       ELSE IF us[user_id].password_reset_expires = NoTime THEN 0
       ELSE IF us[user_id].password_reset_expires < now THEN 0
       ELSE user_id

\* reset_password: False when a check fails or raises, else update_one with
\* the update document as the code writes it
reset_password(token, new_password, salt) ==
    /\ LET user_id == reset_user(users, token)
           hashed_password == get_password_hash(new_password, salt)
       IN IF user_id = 0
          THEN /\ users' = users
               /\ reply' = Reply("reset_password", None, "False", 0)
          ELSE /\ users' = [users EXCEPT ![user_id] =
                    update_one(@, dict(<<
                        <<"$set", [hashed_password |-> hashed_password,
                                   password_reset_token |-> NoToken,
                                   password_reset_expires |-> NoTime]>>,
                        <<"$set", [refresh_tokens |-> <<>>]>> >>))]
               /\ reply' = Reply("reset_password", None, "True", 0)
    /\ UNCHANGED <<jobsystem, now, regs, storage>>

\* an hour passes
Tick ==
    /\ now < MaxTime
    /\ now' = now + 1
    /\ UNCHANGED <<jobsystem, accounts, storage>>

\* the registrations alone, for both emails
RegisterNext ==
    \/ \E c \in CallIds, email \in Emails, password \in Passwords : register(c, email, password)
    \/ \E c \in CallIds : create_user(c)
    \/ \E c \in CallIds, salt \in Salts : insert_one(c, salt)

RegisterSpec == Init /\ [][RegisterNext]_vars

\* the emails that register in the runs of the account operations; the other
\* email stays unknown
Registrants == {"a@x.com"}

AccountNext ==
    \/ \E c \in CallIds, email \in Registrants, password \in Passwords :
            register(c, email, password)
    \/ \E c \in CallIds : create_user(c)
    \/ \E c \in CallIds, salt \in Salts : insert_one(c, salt)
    \/ \E email \in Emails, password \in Passwords : authenticate_user(email, password)
    \/ \E user_id \in UserIds, current_password \in Passwords,
          new_password \in Passwords, salt \in Salts :
            change_password(user_id, current_password, new_password, salt)
    \/ \E email \in Emails : send_password_reset_email(email)
    \/ \E token \in TriedTokens, new_password \in Passwords, salt \in Salts :
            reset_password(token, new_password, salt)
    \/ Tick

AccountSpec == Init /\ [][AccountNext]_vars

\* ---- FileService (services/file_service.py) and the /files endpoints ----
MaxFiles == 2
MaxLinks == 1

\* a filename is the sequence of its parts, each "." a part of its own
FileNames == {<<"test", ".", "txt">>, <<"Scan", ".", "PDF">>, <<"photo", ".", "jpeg">>,
              <<"run", ".", "exe">>, <<".", "pdf">>, <<"notes">>}

\* the bytes of an upload
Contents == {<<>>, <<"T", "e", "s", "t">>}

\* str.lower() of one part
Lower(part) ==
    CASE part = "PDF" -> "pdf"
      [] part = "Scan" -> "scan"
      [] OTHER -> part

lower(s) == [i \in DOMAIN s |-> Lower(s[i])]

\* os.path.splitext: the extension starts at the last dot, unless only dots
\* come before it
splitext(p) ==
    LET dots == {i \in DOMAIN p : p[i] = "."}
        dotIndex == IF dots = {} THEN 0
                    ELSE CHOOSE i \in dots : \A k \in dots : k <= i
    IN IF dotIndex = 0 \/ \A k \in 1..dotIndex : p[k] = "."
       THEN <<p, <<>>>>
       ELSE <<SubSeq(p, 1, dotIndex - 1), SubSeq(p, dotIndex, Len(p))>>

\* str.lstrip('.')
RECURSIVE lstrip(_)
lstrip(s) == IF s # <<>> /\ Head(s) = "." THEN lstrip(Tail(s)) ELSE s

\* core/config.py ALLOWED_EXTENSIONS, the values of schemas/file.py FileType
ALLOWED_EXTENSIONS ==
    {"pdf", "doc", "docx", "txt", "jpg", "jpeg", "png", "gif", "bmp", "tiff"}

is_allowed_file(filename) ==
    /\ filename # <<>>
    /\ lstrip(lower(splitext(filename)[2])) \in {<<ext>> : ext \in ALLOWED_EXTENSIONS}

\* the values uuid.uuid4() returns, in the order drawn
Uuids == <<"uuid-1", "uuid-2", "uuid-3", "uuid-4">>

uuid4 == Uuids[Len(files) + 1]

\* POST /upload and upload_file: 400 for a file type that is not allowed, else
\* the file is stored under a generated name and its record inserted
upload_file(file, user_id) ==
    /\ Len(files) < MaxFiles
    /\ IF ~is_allowed_file(file.filename)
       THEN files' = files
       ELSE LET file_id == uuid4
                file_ext == splitext(file.filename)[2]
                filename == <<file_id>> \o file_ext
                file_data ==
                    [_id |-> file_id, filename |-> filename,
                     original_filename |-> file.filename,
                     file_type |-> lstrip(lower(splitext(file.filename)[2])),
                     file_size |-> Len(file.content), user_id |-> user_id,
                     download_count |-> 0]
            IN files' = Append(files, file_data)
    /\ UNCHANGED <<jobsystem, now, accounts, shared_links, downloads>>

\* the uploads tried, by either user
Uploads == {[filename |-> n, content |-> c] : n \in FileNames, c \in Contents}

UploadNext ==
    \E file \in Uploads, user_id \in Users : upload_file(file, user_id)

UploadSpec == Init /\ [][UploadNext]_vars

\* the None of download_limit and of a link
NoLimit == -1
NoLink == [link_id |-> 0]

\* Python truth of an Optional value: None, 0 and "" are false
truthy(v, none) == v # none /\ v # 0

\* get_file(file_id, user_id): whether the user has a file of that id
get_file(file_id, user_id) ==
    \E i \in DOMAIN files : files[i]._id = file_id /\ files[i].user_id = user_id

\* the ShareLinkCreate bodies tried: a limit of one download, the same with a
\* password and an expiry, and a link to a file that does not exist
ShareData ==
    {[file_id |-> "uuid-1", user_id |-> "u1", expires_at |-> NoTime,
      download_limit |-> 1, password |-> None],
     [file_id |-> "uuid-1", user_id |-> "u1", expires_at |-> 1,
      download_limit |-> 1, password |-> "pw"],
     [file_id |-> "uuid-0", user_id |-> "u1", expires_at |-> NoTime,
      download_limit |-> NoLimit, password |-> None]}

\* POST /files/{file_id}/share: 404 unless the caller owns file_id, then
\* create_share_link(share_data)
create_share_link(file_id, share_data, current_user) ==
    /\ Len(shared_links) < MaxLinks
    /\ shared_links' =
         IF ~get_file(file_id, current_user) THEN shared_links
         ELSE Append(shared_links,
                [link_id |-> Len(shared_links) + 1, file_id |-> share_data.file_id,
                 user_id |-> share_data.user_id, expires_at |-> share_data.expires_at,
                 download_limit |-> share_data.download_limit,
                 password |-> share_data.password, download_count |-> 0,
                 is_active |-> TRUE])
    /\ UNCHANGED <<jobsystem, now, accounts, files, downloads>>

\* the get_shared_file calls are numbered in the order they arrive
NextDownload == CHOOSE c \in CallIds :
    downloads[c].pc = "idle" /\ \A k \in CallIds : k < c => downloads[k].pc # "idle"

\* find_one({"link_id": link_id, "is_active": True})
find_one_link(links, link_id) ==
    IF link_id \in DOMAIN links /\ links[link_id].is_active THEN links[link_id] ELSE NoLink

\* the checks of get_shared_file on the link it read: expiry, limit, password
link_refused(share_link, password) ==
    \/ share_link.expires_at # NoTime /\ share_link.expires_at < now
    \/ /\ truthy(share_link.download_limit, NoLimit)
       /\ share_link.download_count >= share_link.download_limit
    \/ share_link.password # None /\ share_link.password # password

\* get_shared_file: reads the link and returns None when it is missing,
\* expired, used up or the password is wrong
SharedLink(c, link_id, password) ==
    /\ downloads[c].pc = "idle"
    /\ c = NextDownload
    /\ LET share_link == find_one_link(shared_links, link_id)
       IN downloads' = [downloads EXCEPT ![c] =
            IF share_link = NoLink
            THEN [pc |-> "done", link_id |-> link_id, ret |-> "None"]
            ELSE IF link_refused(share_link, password)
            THEN [pc |-> "done", link_id |-> link_id, ret |-> "None"]
            ELSE [pc |-> "find_file", link_id |-> link_id, ret |-> None]]
    /\ UNCHANGED <<jobsystem, now, accounts, files, shared_links>>

\* get_shared_file: reads the file of the link, None when there is none
SharedFile(c) ==
    /\ downloads[c].pc = "find_file"
    /\ downloads' = [downloads EXCEPT ![c] =
            IF \E i \in DOMAIN files : files[i]._id = shared_links[downloads[c].link_id].file_id
            THEN [@ EXCEPT !.pc = "inc"]
            ELSE [@ EXCEPT !.pc = "done", !.ret = "None"]]
    /\ UNCHANGED <<jobsystem, now, accounts, files, shared_links>>

\* get_shared_file: {"$inc": {"download_count": 1}}, then the file is returned
SharedInc(c) ==
    /\ downloads[c].pc = "inc"
    /\ shared_links' = [shared_links EXCEPT ![downloads[c].link_id].download_count = @ + 1]
    /\ downloads' = [downloads EXCEPT ![c] = [@ EXCEPT !.pc = "done", !.ret = "File"]]
    /\ UNCHANGED <<jobsystem, now, accounts, files>>

\* the upload the share runs start from
ShareUploads == {[filename |-> <<"test", ".", "txt">>, content |-> <<"T", "e", "s", "t">>]}

ShareNext ==
    \/ \E file \in ShareUploads : upload_file(file, "u1")
    \/ \E share_data \in ShareData : create_share_link("uuid-1", share_data, "u1")
    \/ \E c \in CallIds, link_id \in 1..MaxLinks, password \in {None, "pw"} :
            SharedLink(c, link_id, password)
    \/ \E c \in CallIds : SharedFile(c)
    \/ \E c \in CallIds : SharedInc(c)
    \/ Tick

ShareSpec == Init /\ [][ShareNext]_vars

\* ---- properties ----
Terminal == {"completed", "failed", "cancelled"}

\* the jobs some cancel_job call returned True for
CancelledJobs == {cancels[c].job_id : c \in {d \in CallIds : cancels[d].ret = "True"}}

\* C1: once cancel_job has returned True for a job, its stored status is
\* cancelled in every later state (the background task never overwrites it).
C1_CancelledIsTerminal ==
    \A j \in CancelledJobs : jobs[j].status = "cancelled"

\* C2: a job whose stored status is completed is never changed to cancelled,
\* under every interleaving of cancel_job with the background completion.
C2_CancelNeverOverwritesCompleted ==
    [][\A j \in DOMAIN jobs :
        jobs[j].status = "completed" => jobs'[j].status # "cancelled"]_vars

CancelledUnset(job) ==
    job.status = "cancelled" /\ job.result = None /\ job.error_message = None

\* C3: a job cancelled while pending (cancelled, nothing set) stays so: it never
\* reaches processing and its result and error_message remain unset.
C3_CancelledPendingStaysUnset ==
    [][\A j \in DOMAIN jobs :
        CancelledUnset(jobs[j]) => CancelledUnset(jobs'[j])]_vars

\* the edges of the job state machine
Edges == {<<"pending", "processing">>, <<"processing", "completed">>,
          <<"processing", "failed">>, <<"pending", "cancelled">>,
          <<"processing", "cancelled">>}

\* C4: every change of a stored status follows an edge of the state machine.
C4_StatusFollowsEdges ==
    [][\A j \in DOMAIN jobs :
        jobs'[j].status # jobs[j].status
            => <<jobs[j].status, jobs'[j].status>> \in Edges]_vars

\* the tasks of a job that have reported processing and no terminal status yet
Running(job_id) == {t \in TaskIds : tasks[t].pc = "running" /\ tasks[t].job_id = job_id}

\* C5: for any job_id at most one task is between its processing report and
\* its terminal report (no double-dispatch).
C5_NoDoubleDispatch ==
    \A job_id \in RequestJobIds : Cardinality(Running(job_id)) <= 1

\* C6: for every stored job, progress = 100 if and only if status = completed.
C6_ProgressHundredIffCompleted ==
    \A j \in DOMAIN jobs : (jobs[j].progress = 100) <=> (jobs[j].status = "completed")

\* C7: result is set only on a completed job and error_message only on a
\* failed one.
C7_ResultOnlyCompletedErrorOnlyFailed ==
    \A j \in DOMAIN jobs :
        /\ jobs[j].result # None => jobs[j].status = "completed"
        /\ jobs[j].error_message # None => jobs[j].status = "failed"

\* the progress values of the reports of a task never decrease, and a failed
\* report carries the progress of the report before it
ReportsMonotonic(reports) ==
    \A i \in 2..Len(reports) :
        /\ reports[i].progress >= reports[i - 1].progress
        /\ reports[i].status = "failed" => reports[i].progress = reports[i - 1].progress

\* C8: progress never decreases, neither in the store nor in the reports of a
\* worker task; a failed report repeats the last progress reported.
C8_ProgressNeverDecreases ==
    /\ [][\A j \in DOMAIN jobs : jobs'[j].progress >= jobs[j].progress]_vars
    /\ [](\A t \in TaskIds : ReportsMonotonic(tasks[t].reports))

\* an ocr_task whose operation raised: processing, then failed
C8_Witness ==
    \E t \in TaskIds :
        /\ tasks[t].task = "ocr_task"
        /\ Len(tasks[t].reports) = 2
        /\ tasks[t].reports[2].status = "failed"

\* C9: cancel_job on a job of the caller that is already completed, failed or
\* cancelled returns False at once and changes neither the store nor the queue.
C9_CancelTerminalReturnsFalse ==
    [][\A c \in CallIds :
        LET call == cancels'[c]
        IN (/\ cancels[c].pc = "idle" /\ call.pc # "idle"
            /\ call.job_id \in DOMAIN jobs
            /\ jobs[call.job_id].user_id = call.user_id
            /\ jobs[call.job_id].status \in Terminal)
           => /\ call.pc = "done" /\ call.ret = "False"
              /\ jobs' = jobs /\ job_queue' = job_queue /\ redis_keys' = redis_keys]_vars

\* a second cancel_job of an already-cancelled job has returned False
C9_Witness ==
    \E c \in CallIds :
        /\ cancels[c].ret = "False" /\ cancels[c].status = "cancelled"
        /\ \E d \in CallIds : cancels[d].ret = "True" /\ cancels[d].job_id = cancels[c].job_id

\* whether a job id is in the list
InQueue(job_id) == \E i \in 1..Len(job_queue) : job_queue[i] = job_id

\* C10: when cancel_job has returned True for a job it read as pending, the
\* job's id is no longer in job_queue.
C10_CancelledPendingLeavesQueue ==
    \A c \in CallIds :
        (cancels[c].ret = "True" /\ cancels[c].status = "pending")
            => ~InQueue(cancels[c].job_id)

\* whether the queue should hand off a before b: higher priority, or the same
\* priority and submitted earlier
Before(a, b) ==
    \/ jobs[a].priority > jobs[b].priority
    \/ jobs[a].priority = jobs[b].priority /\ jobs[a].created_at < jobs[b].created_at

\* C11: the id the queue hands off is one no other queued id should precede
\* (priority descending, submission order within one priority).
C11_PopsByPriorityThenFifo ==
    [][popped' # popped =>
        \A i \in 1..Len(job_queue) :
            ~Before(job_queue[i], popped'[Len(popped')])]_vars

C13_InvalidSubmitNeverPersisted ==
    \A j \in JobIds :
        (j \in DOMAIN jobs \/ proc[j] # "none") =>
            /\ jobs[j].job_type \in JobType
            /\ Len(jobs[j].input_files) > 0

\* C15: cancel_job for a job_id that does not exist or that another user owns
\* returns False at once and changes neither the store nor the queue.
C15_CancelForeignReturnsFalse ==
    [][\A c \in CallIds :
        LET call == cancels'[c]
        IN (/\ cancels[c].pc = "idle" /\ call.pc # "idle"
            /\ \/ call.job_id \notin DOMAIN jobs
               \/ jobs[call.job_id].user_id # call.user_id)
           => /\ call.pc = "done" /\ call.ret = "False"
              /\ jobs' = jobs /\ job_queue' = job_queue /\ redis_keys' = redis_keys]_vars

\* cancel_job of another user's pending job has returned False
C15_Witness ==
    \E c \in CallIds :
        /\ cancels[c].ret = "False"
        /\ cancels[c].job_id \in DOMAIN jobs
        /\ jobs[cancels[c].job_id].user_id # cancels[c].user_id
        /\ jobs[cancels[c].job_id].status = "pending"

\* the fields no operation changes after creation
Immutable == {"job_id", "job_type", "priority", "user_id", "input_files"}

\* C17: no operation changes a stored job's job_id, job_type, priority,
\* user_id or input_files, and no two stored jobs share a job_id.
C17_IdentityFieldsImmutable ==
    /\ [][\A j \in DOMAIN jobs :
            /\ j \in DOMAIN jobs'
            /\ \A f \in Immutable : jobs'[j][f] = jobs[j][f]]_vars
    /\ [](\A j, k \in DOMAIN jobs : j # k => jobs[j].job_id # jobs[k].job_id)

\* one job has been cancelled and another completed
C17_Witness ==
    \E j, k \in DOMAIN jobs :
        jobs[j].status = "cancelled" /\ jobs[k].status = "completed"

\* the state the read operations must leave alone
store == <<jobs, job_queue, redis_keys, proc>>

\* C14: get_job returns the stored job exactly when a job with that job_id
\* exists and belongs to the caller, returns nothing otherwise, and changes no state.
C14_GetJobOnlyOwnJob ==
    [][(response' # response /\ response'.op = "get_job") =>
        LET r == response'
            own == r.job_id \in DOMAIN jobs /\ jobs[r.job_id].user_id = r.user_id
        IN /\ own => r.result = jobs[r.job_id]
           /\ ~own => r.result.status = None
           /\ store' = store]_vars

\* get_job on another user's job has returned nothing
C14_Witness ==
    /\ response.op = "get_job"
    /\ response.job_id \in DOMAIN jobs
    /\ jobs[response.job_id].user_id # response.user_id
    /\ response.result.status = None

\* C16: get_user_jobs returns only stored jobs of the caller (with the status
\* asked for, when one is given), newest first by created_at, and changes no state.
C16_UserJobsOwnNewestFirst ==
    [][(response' # response /\ response'.op = "get_user_jobs") =>
        LET r == response'
        IN /\ \A i \in 1..Len(r.result) :
                /\ r.result[i].user_id = r.user_id
                /\ r.status # None => r.result[i].status = r.status
                /\ r.result[i].job_id \in DOMAIN jobs
                /\ r.result[i] = jobs[r.result[i].job_id]
           /\ \A i, k \in 1..Len(r.result) :
                i < k => r.result[i].created_at >= r.result[k].created_at
           /\ store' = store]_vars

\* get_user_jobs has returned two jobs of the caller
C16_Witness ==
    /\ response.op = "get_user_jobs"
    /\ Len(response.result) = 2
    /\ response.result[1].created_at > response.result[2].created_at

\* C18: when the operation of a task raises, the task reports failed with the
\* exception's message, reports no completed, has run the operation once, and
\* the other tasks of the worker are left as they were.
C18_RaiseReportedAsFailedOnce ==
    /\ [](\A t \in TaskIds :
            tasks[t].raised # None =>
                LET reports == tasks[t].reports
                IN /\ tasks[t].pc = "done"
                   /\ reports[Len(reports)].status = "failed"
                   /\ reports[Len(reports)].error_message = tasks[t].raised
                   /\ \A i \in 1..Len(reports) : reports[i].status # "completed"
                   /\ Cardinality({i \in 1..Len(reports) : reports[i].status = "failed"}) = 1
                   /\ tasks[t].runs <= 1)
    /\ [][\A t \in TaskIds :
            (tasks[t].raised = None /\ tasks'[t].raised # None) =>
                \A k \in TaskIds \ {t} : tasks'[k] = tasks[k]]_vars

\* the operation of one task has raised, and a task that began has completed
C18_Witness ==
    \E t, k \in TaskIds :
        /\ tasks[t].raised = "OperationError" /\ tasks[t].runs = 1
        /\ tasks[k].pc = "done" /\ tasks[k].raised = None

\* the cancel_job calls that have written cancelled to a job
CancelWritten(j) ==
    \E c \in CallIds :
        cancels[c].job_id = j /\ cancels[c].status \in Cancellable
            /\ cancels[c].pc \in {"remove", "done"}

Completed(j) ==
    j \in DOMAIN jobs /\ jobs[j].status = "completed" /\ jobs[j].progress = 100 /\ jobs[j].result # None

\* C19: every job create_job has stored, and no cancel_job has written to,
\* eventually is completed with progress 100 and a result.
C19_SubmittedEventuallyCompleted ==
    \A j \in JobIds :
        (j \in DOMAIN jobs) ~> (Completed(j) \/ CancelWritten(j))

\* a job no cancel_job has written to is completed, while another job is cancelled
C19_Witness ==
    \E j, k \in DOMAIN jobs :
        /\ Completed(j) /\ ~CancelWritten(j)
        /\ jobs[k].status = "cancelled"

\* C20: a job whose processing unit stopped before a terminal report becomes
\* eligible again and is completed by another unit: no stored job stays
\* non-terminal forever.
C20_CrashedJobEventuallyTerminal ==
    \A j \in JobIds :
        (j \in DOMAIN jobs) ~> (j \in DOMAIN jobs /\ jobs[j].status \in Terminal)

\* what authenticate_user decides for an email and a password on a collection
Authenticates(us, email, password) ==
    /\ get_user_by_email(us, email) # NoUser
    /\ verify_password(password, get_user_by_email(us, email).hashed_password)

\* C21: after change_password(user_id, current_password, new_password) has
\* returned True, authenticate_user with the user's email and the new password
\* succeeds and with the old password returns None.
C21_ChangedPasswordAuthenticates ==
    [][\A user_id \in UserIds, current_password \in Passwords,
         new_password \in Passwords, salt \in Salts :
          (/\ change_password(user_id, current_password, new_password, salt)
           /\ reply'.ret = "True"
           /\ current_password # new_password)
            => /\ Authenticates(users', users[user_id].email, new_password)
               /\ ~Authenticates(users', users[user_id].email, current_password)]_vars

\* C22: at most one user document exists per email; a registration that
\* arrives while its email is registered is answered 400 'Email already
\* registered' and adds no user; no registration step alters a stored user.
C22_OneUserPerEmail ==
    /\ [](\A i, k \in DOMAIN users : users[i].email = users[k].email => i = k)
    /\ [][/\ \A c \in CallIds, email \in Emails, password \in Passwords :
              (register(c, email, password) /\ get_user_by_email(users, email) # NoUser)
                => /\ regs'[c].ret = "400 Email already registered"
                   /\ regs'[c].pc = "done"
                   /\ users' = users
           /\ \A i \in DOMAIN users : i \in DOMAIN users' /\ users'[i] = users[i]]_vars

\* a registration was refused for an email that is registered
C22_Witness ==
    \E c \in CallIds :
        /\ regs[c].ret = "400 Email already registered"
        /\ get_user_by_email(users, regs[c].email) # NoUser

\* C23: authenticate_user(email, password) returns the user exactly when a
\* user of that email is stored and the password hashes, with the salt of the
\* stored hash, to the stored hash; when it returns None the users are unchanged.
C23_AuthenticateIffPasswordMatches ==
    [][\A email \in Emails, password \in Passwords :
          authenticate_user(email, password)
            => /\ (reply'.ret = "User") <=>
                    (\E i \in DOMAIN users :
                        /\ users[i].email = email
                        /\ users[i].hashed_password =
                                get_password_hash(password, users[i].hashed_password.salt))
               /\ (reply'.ret = "User") => users[reply'.user].email = email
               /\ (reply'.ret = "None") => users' = users]_vars

\* authenticate_user has returned None for a registered email (wrong password)
C23_Witness ==
    /\ reply.op = "authenticate_user"
    /\ reply.ret = "None"
    /\ get_user_by_email(users, reply.email) # NoUser

\* C29: after reset_password(token, new_password) has returned True the stored
\* password is the new one, password_reset_token and password_reset_expires
\* are cleared, and a second reset_password with the same token returns False.
C29_ResetConsumesToken ==
    [][\A token \in TriedTokens, new_password \in Passwords, salt \in Salts :
          (reset_password(token, new_password, salt) /\ reply'.ret = "True")
            => LET user_id == reset_user(users, token)
               IN /\ verify_password(new_password, users'[user_id].hashed_password)
                  /\ users'[user_id].password_reset_token = NoToken
                  /\ users'[user_id].password_reset_expires = NoTime
                  /\ reset_user(users', token) = 0]_vars

\* C24: upload_file of a file with an allowed extension returns a record whose
\* filename is the uploaded file's name, whose file_type is its lower-cased
\* extension and whose file_size is the number of bytes uploaded.
C24_UploadRecordMatchesFile ==
    [][\A file \in Uploads, user_id \in Users :
          (upload_file(file, user_id) /\ is_allowed_file(file.filename))
            => LET record == files'[Len(files')]
               IN /\ record.filename = file.filename
                  /\ <<".">> \o record.file_type = lower(splitext(file.filename)[2])
                  /\ record.file_size = Len(file.content)]_vars

\* the get_shared_file calls on a link that have returned the file
Returned(link_id) ==
    {c \in CallIds : downloads[c].link_id = link_id /\ downloads[c].ret = "File"}

\* C30: for a share link with a download_limit, download_count and the number
\* of get_shared_file calls that returned the file never exceed the limit, in
\* any interleaving; a call that returns None leaves download_count unchanged.
C30_DownloadsWithinLimit ==
    /\ [](\A l \in DOMAIN shared_links :
            shared_links[l].download_limit # NoLimit
                => /\ shared_links[l].download_count <= shared_links[l].download_limit
                   /\ Cardinality(Returned(l)) <= shared_links[l].download_limit)
    /\ [][\A c \in CallIds :
            (downloads[c].pc # "done" /\ downloads'[c].pc = "done" /\ downloads'[c].ret = "None")
                => \A l \in DOMAIN shared_links :
                        shared_links'[l].download_count = shared_links[l].download_count]_vars

\* C25: every execution of a worker task reports processing before the
\* operation is invoked and afterwards exactly one terminal status: completed
\* with the result and progress 100, or failed with the error; never both, and
\* nothing after the terminal report.
C25_ProcessingThenOneTerminal ==
    /\ [](\A t \in TaskIds :
            LET reports == tasks[t].reports
            IN /\ tasks[t].pc \in {"none", "queued"} => reports = <<>>
               /\ tasks[t].pc = "running" =>
                    /\ Len(reports) = 1
                    /\ reports[1].status = "processing"
                    /\ tasks[t].runs = 0
               /\ tasks[t].pc = "done" =>
                    /\ Len(reports) = 2
                    /\ reports[1].status = "processing"
                    /\ \/ /\ tasks[t].raised = None
                          /\ reports[2].status = "completed"
                          /\ reports[2].progress = 100
                          /\ reports[2].result # None
                       \/ /\ tasks[t].raised # None
                          /\ reports[2].status = "failed"
                          /\ reports[2].error_message = tasks[t].raised)
    /\ [][\A t \in TaskIds : tasks[t].pc = "done" => tasks'[t] = tasks[t]]_vars

\* one task has ended completed and another has ended failed
C25_Witness ==
    \E t, k \in TaskIds :
        /\ tasks[t].pc = "done" /\ tasks[t].reports[2].status = "completed"
        /\ tasks[k].pc = "done" /\ tasks[k].reports[2].status = "failed"

\* C26: every job_type of the catalog (every value of JobType) is accepted by
\* /process and its task invokes the matching operation; no catalog type is
\* answered 400 or ends failed with 'Unknown task type' / 'Unknown conversion type'.
C26_CatalogTypesDispatched ==
    /\ \A task_type \in JobType : Route(task_type, 1) # "400"
    /\ \A t \in TaskIds :
            (tasks[t].pc = "done" /\ tasks[t].task_type \in JobType)
                => /\ tasks[t].raised \notin {"Unknown task type", "Unknown conversion type"}
                   /\ tasks[t].runs = 1

\* C27: every request /process accepts is routed to a task that has a branch
\* for its task_type, each type a task has a branch for is routed to that
\* task, and a request answered 400 enqueues no task.
C27_RoutingMatchesTasks ==
    /\ [](\A t \in TaskIds :
            tasks[t].pc # "none" =>
                /\ Handles(tasks[t].task, tasks[t].task_type)
                /\ tasks[t].task_type \in PdfTaskTypes => tasks[t].task = "process_pdf_task"
                /\ tasks[t].task_type \in ConvertTaskTypes => tasks[t].task = "convert_file_task")
    /\ [][\A request \in Requests :
            (process_file(request[1], request[2]) /\ Route(request[1], request[2]) = "400")
                => tasks' = tasks]_vars

\* C28: a job created through POST /jobs is owned by the authenticated caller:
\* its stored user_id is current_user.id, and the caller can get it.
C28_CreatedJobOwnedByCaller ==
    [][\A body \in Bodies, current_user \in Users :
          (post_jobs(body, current_user) /\ JobCreate_valid(body))
            => /\ jobs'[FreshId].user_id = current_user
               /\ get_job(jobs', FreshId, current_user).status # None]_vars

====
